---------------------------- MODULE Spec2Model ----------------------------
(***************************************************************************)
(* A model of the kargo plugin host: discovery and the plugin registry     *)
(* (plugins/manager.rs), command composition and dispatch (cli.rs,         *)
(* main.rs), the WASM adapter and its host-function bridge                 *)
(* (plugins/wasm_adapter.rs, plugins/host_functions.rs, plugins/host/) and *)
(* the task manager (plugins/host/tasks.rs).                               *)
(*                                                                         *)
(* Each part has its own specification over the shared variables:          *)
(*   Spec          discovery (PluginManager::discover_and_load_plugins)    *)
(*                 and the teardown of the manager                         *)
(*   SpecCompose   build_root_cli over a loaded registry, then teardown    *)
(*   SpecDispatch  parse + dispatch + process exit (cli.rs, main.rs)       *)
(*   SpecTasks     TaskManager and the spawn host function                 *)
(*   SpecBridge    WasmPluginAdapter calls and the request bridge          *)
(*   SpecSharedBridge  the bridge with a channel other senders can fill    *)
(***************************************************************************)
EXTENDS Integers, Sequences, FiniteSets, TLC

VARIABLES
    \* ---- discovery / registry (plugins/manager.rs)
    search_paths,   \* PluginManager.search_paths: what each entry is on disk
    dirIdx,         \* index of the search path entry the for-loop is at
    scanning,       \* TRUE while inside the read_dir loop of search_paths[dirIdx]
    scanned,        \* entries the read_dir iterator has yielded in this directory
    plugins,        \* PluginManager.plugins: name -> plugin object
    native_libs,    \* PluginManager._native_libs: library handles, in push order
    loads,          \* number of plugin objects constructed so far (object ids)
    firstLoaded,    \* history: name -> id of the first object loaded under it
    dropped,        \* history: ids of plugin objects that have been destroyed
    lastFailed,     \* history: the last candidate processed failed
    discResult,     \* "running", or what discover_and_load_plugins returned
    surface,        \* build_root_cli: the subcommands added, <<[key, name]>>
    pmDrops,        \* number of PluginManager fields dropped so far
    unloaded,       \* history: ids of the library handles that were unloaded
    \* ---- parse, dispatch and exit (cli.rs, main.rs)
    argv,           \* std::env::args() without the program name
    dpc,            \* where main is: "start", "parsed", "dispatched", "exited"
    matches,        \* the ArgMatches get_matches produced
    runLog,         \* history: plugin runs invoked, <<[name, args, result]>>
    spawnLog,       \* history: wrapped tool processes spawned, <<[args, code]>>
    dispResult,     \* what dispatch returned: "none", "Ok", "Err", "panic"
    exitCode,       \* the process exit code, -1 while running
    \* ---- task manager (plugins/host/tasks.rs, plugins/host/functions.rs)
    taskCounter,    \* TASK_ID_COUNTER of tasks.rs
    fnCounter,      \* TASK_ID_COUNTER of host/functions.rs
    tasks,          \* TaskManager.tasks: id -> TaskStatus
    jobs,           \* ids whose spawned tokio task has not stored its result
    gpc,            \* where each guest's spawn_kargo_task call is
    greq,           \* the SpawnTask request each guest sent
    gtask,          \* the id spawn_task allocated for each guest's request
    spawnRet,       \* history: the set of ids spawn_task returned
    guestRet,       \* history: the set of ids spawn_kargo_task returned
    seenTerminal,   \* history: id -> first terminal response a poll returned
    writes,         \* history: id -> number of stores into the table
    \* ---- WASM adapter and request bridge (plugins/wasm_adapter.rs,
    \*      plugins/host_functions.rs, plugins/host/functions.rs)
    mutex,          \* WasmPluginAdapter.plugin: the mutex around the module
    cpc,            \* where each caller's call into the adapter is
    cop,            \* the operation each caller invoked: "run" or "clap"
    cctx,           \* the execution context of the thread polling the call
    cres,           \* what each caller's call returned
    chan,           \* the mpsc channel of wasm_adapter.rs: queued request ids
    hopen,          \* the channel of the host/ functions still has its receiver
    hchan,          \* requests queued in the channel of the host/ functions
    consumer,       \* handle_requests: 0 at recv, or the ReadFile being read
    reqs,           \* history: every request a host function created
    cur,            \* the request each caller's host function is waiting on
    entered,        \* history: callers in the order their guest call began
    \* ---- library functions (kargo-mddoc package.rs)
    pkgIn,          \* the string handed to PackageSpec::parse
    pkgOut,         \* what PackageSpec::parse returned
    \* ---- one source project handed to build_and_load_rust_project
    proj,           \* the project directory as it is on disk
    newestSource,   \* the newest modification time among its source files
    projOut,        \* what build_and_load_rust_project did with it
    \* ---- one path looked at by discover_and_load_plugins
    fsEntry,        \* the path as it is on disk
    host,           \* the operating system kargo was built for
    fsOut,          \* the candidate the path was taken for
    \* ---- PluginManager::new
    envIn,          \* the environment and the workspace as new() finds them
    pathOut,        \* the search_paths new() computed, <<>> before the call
    \* ---- the poll_kargo_task host function (plugins/host/functions_poll.rs)
    pollIn,         \* what blocking_recv and the guest memory answer
    pollOut,        \* the call's result and its four outputs
    \* ---- BackupManager (src/kargo-cli/src/backup.rs)
    bkFiles,        \* the file system: path -> content, backup_dir included
    changes,        \* BackupManager.changes
    bkOrig,         \* history: path -> its content when backup_file copied it
    bkPhase,        \* "backup", "modify" or "rolled"
    bkRes,          \* what the last backup_file or rollback returned
    \* ---- a native plugin library and load_native's symbol lookup
    libIn,          \* how the plugin library was written
    ctorOut         \* what resolving the constructor returned

discVars == <<search_paths, dirIdx, scanning, scanned, plugins, native_libs,
              loads, firstLoaded, dropped, lastFailed, discResult,
              surface, pmDrops, unloaded>>

dispVars == <<argv, dpc, matches, runLog, spawnLog, dispResult, exitCode>>

taskVars == <<taskCounter, fnCounter, tasks, jobs, gpc, greq, gtask, spawnRet,
              guestRet, seenTerminal, writes>>

bridgeVars == <<mutex, cpc, cop, cctx, cres, chan, hopen, hchan, consumer,
                reqs, cur, entered>>

pkgVars == <<pkgIn, pkgOut>>
projVars == <<proj, newestSource, projOut>>
fsVars == <<fsEntry, host, fsOut>>

envVars == <<envIn, pathOut>>

pollVars == <<pollIn, pollOut>>

bkVars == <<bkFiles, changes, bkOrig, bkPhase, bkRes>>

symVars == <<libIn, ctorOut>>

restVars == <<bkVars, symVars>>

oldLibVars == <<pkgVars, projVars, fsVars, envVars, pollVars>>

libVars == <<oldLibVars, restVars>>

vars == <<discVars, dispVars, taskVars, bridgeVars, libVars>>

\* what the actions of one part leave alone
notDisc == <<dispVars, taskVars, bridgeVars, libVars>>
notDisp == <<discVars, taskVars, bridgeVars, libVars>>
notTask == <<discVars, dispVars, bridgeVars, libVars>>
notBridge == <<discVars, dispVars, taskVars, libVars>>
notLib == <<discVars, dispVars, taskVars, bridgeVars>>

--------------------------------------------------------------------------
\* Bounds of the model

MaxPaths   == 2     \* search path entries
MaxEntries == 2     \* directory entries read per scanned directory
MaxLoads   == 3     \* plugin objects constructed in one discovery
MaxTime    == 1     \* modification times are 0..MaxTime

PluginNames == {"mddoc", "cargo"}        \* names a plugin may advertise
Times       == 0..MaxTime

EmptyMap == [n \in {} |-> 0]

\* HashMap::insert: the value under an occupied key is replaced
MapInsert(m, k, v) == [n \in DOMAIN m \cup {k} |-> IF n = k THEN v ELSE m[n]]

--------------------------------------------------------------------------
\* Candidate descriptions (what the file system and the loaders answer)

\* a shared object: does dlopen succeed, is kargo_plugin_create exported,
\* and which name does the constructed plugin's clap() carry
NativeFiles ==
    [open : {"ok"}, symbol : {"ok"}, name : PluginNames]
    \cup [open : {"ok"}, symbol : {"missing"}, name : {"mddoc"}]
    \cup [open : {"error"}, symbol : {"ok"}, name : {"mddoc"}]

\* a .wasm file: does the Extism plugin build, and what does the guest's
\* _kargo_plugin_get_command_spec_json answer
SpecAnswers == {"call_error", "bad_json", "no_name"} \cup PluginNames

WasmFiles ==
    [build : {"ok"}, spec : SpecAnswers]
    \cup [build : {"error"}, spec : {"call_error"}]

\* a source project directory; a field the code never looks at for a given
\* project (the times without an artifact, the build without a rebuild, the
\* library of a project that is never loaded) is held at one value
Projects ==
    LET All == [src : BOOLEAN, art : BOOLEAN, meta : BOOLEAN,
                srcMax : Times, artMod : Times,
                build : {"ok", "fail"}, libAfter : BOOLEAN, lib : NativeFiles]
        NoLib == [open |-> "error", symbol |-> "ok", name |-> "mddoc"]
        Rebuilt(p) == ~p.art \/ ~p.meta \/ p.srcMax > p.artMod
        Loaded(p) == p.src /\ (Rebuilt(p) => p.build = "ok" /\ p.libAfter)
    IN {p \in All :
          /\ ~p.src => ~p.art
          /\ ~p.art => p.meta
          /\ (~p.art \/ ~p.meta) => p.srcMax = 0 /\ p.artMod = 0
          /\ (~p.src \/ ~Rebuilt(p)) => p.build = "ok"
          /\ (~p.src \/ ~Rebuilt(p) \/ p.build # "ok") => p.libAfter
          /\ ~Loaded(p) => p.lib = NoLib}

\* how a search path entry looks on disk
DirKinds == {"missing", "project", "scan", "unreadable"}

--------------------------------------------------------------------------
\* WasmPluginAdapter::clap: the name of the command the adapter produces
clap_name(spec) ==
    CASE spec = "call_error" -> "wasm-error"
      [] spec = "bad_json"   -> "wasm-bad-spec"
      [] spec = "no_name"    -> "wasm-missing-name"
      [] OTHER               -> spec

\* the names WasmPluginAdapter::clap falls back to
PlaceholderNames == {"wasm-error", "wasm-bad-spec", "wasm-missing-name"}

\* The registry part of the manager that the loaders change
Reg == [plugins |-> plugins, native_libs |-> native_libs, loads |-> loads,
        firstLoaded |-> firstLoaded, dropped |-> dropped]

\* the registry of PluginManager::new
RegEmpty == [plugins |-> EmptyMap, native_libs |-> <<>>, loads |-> 0,
             firstLoaded |-> EmptyMap, dropped |-> {}]

\* self.plugins.insert(name, plugin): the new object gets the next id; the
\* object that was stored under the name (if any) is returned by insert and
\* destroyed at the end of the statement
InsertPlugin(r, name, kind) ==
    LET id == r.loads + 1
        obj == [id |-> id, kind |-> kind]
        after == MapInsert(r.plugins, name, obj)
        live == {after[n].id : n \in DOMAIN after}
        old == {r.plugins[n].id : n \in DOMAIN r.plugins} \cup {id}
    IN [r EXCEPT !.plugins = after,
                 !.loads = id,
                 !.firstLoaded = IF name \in DOMAIN r.firstLoaded
                                 THEN r.firstLoaded
                                 ELSE MapInsert(r.firstLoaded, name, id),
                 !.dropped = r.dropped \cup (old \ live)]

\* PluginManager::load_native
load_native(r, file) ==
    IF file.open # "ok" THEN [ok |-> FALSE, reg |-> r]
    ELSE IF file.symbol # "ok" THEN [ok |-> FALSE, reg |-> r]
    ELSE LET r2 == InsertPlugin(r, file.name, "native")
         IN [ok |-> TRUE,
             reg |-> [r2 EXCEPT !.native_libs = Append(r.native_libs, r2.loads)]]

\* PluginManager::load_wasm
load_wasm(r, file) ==
    IF file.build # "ok" THEN [ok |-> FALSE, reg |-> r]
    ELSE [ok |-> TRUE, reg |-> InsertPlugin(r, clap_name(file.spec), "wasm")]

\* needs_build of build_and_load_rust_project: no artifact, or a modification
\* time that cannot be read, or the newest entry of the project directory
\* (src_max) is newer than the artifact
needs_build(p) ==
    IF ~p.art THEN TRUE
    ELSE IF ~p.meta THEN TRUE
    ELSE p.srcMax > p.artMod

\* PluginManager::build_and_load_rust_project
build_and_load_rust_project(r, p) ==
    IF ~p.src THEN [ok |-> FALSE, built |-> FALSE, reg |-> r]          \* no lib.rs / main.rs
    ELSE IF needs_build(p) /\ p.build # "ok"
         THEN [ok |-> FALSE, built |-> TRUE, reg |-> r]               \* cargo build failed
    ELSE IF needs_build(p) /\ ~p.libAfter
         THEN [ok |-> FALSE, built |-> TRUE, reg |-> r]               \* built lib not found
    ELSE LET res == load_native(r, p.lib)
         IN [ok |-> res.ok, built |-> needs_build(p), reg |-> res.reg]

SetReg(r) ==
    /\ plugins' = r.plugins
    /\ native_libs' = r.native_libs
    /\ loads' = r.loads
    /\ firstLoaded' = r.firstLoaded
    /\ dropped' = r.dropped

Discovering == discResult = "running"

AtDir(kind) ==
    /\ Discovering
    /\ ~scanning
    /\ dirIdx <= Len(search_paths)
    /\ search_paths[dirIdx] = kind

\* if !d.is_dir() { continue; }
SkipMissingDir ==
    /\ AtDir("missing")
    /\ dirIdx' = dirIdx + 1
    /\ UNCHANGED <<search_paths, scanning, scanned, plugins, native_libs, loads,
                   firstLoaded, dropped, lastFailed, discResult>>
    /\ UNCHANGED <<surface, pmDrops, unloaded>>
    /\ UNCHANGED notDisc

\* the directory itself is a plugin project: the result is logged either way
LoadProjectDir ==
    /\ AtDir("project")
    /\ loads < MaxLoads
    /\ \E p \in Projects :
         LET res == build_and_load_rust_project(Reg, p)
         IN /\ SetReg(res.reg)
            /\ lastFailed' = ~res.ok
    /\ dirIdx' = dirIdx + 1
    /\ UNCHANGED <<search_paths, scanning, scanned, discResult>>
    /\ UNCHANGED <<surface, pmDrops, unloaded>>
    /\ UNCHANGED notDisc

\* fs::read_dir(d)? on a directory that cannot be read
OpenDirFails ==
    /\ AtDir("unreadable")
    /\ discResult' = "Err"
    /\ lastFailed' = TRUE
    /\ UNCHANGED <<search_paths, dirIdx, scanning, scanned, plugins, native_libs,
                   loads, firstLoaded, dropped>>
    /\ UNCHANGED <<surface, pmDrops, unloaded>>
    /\ UNCHANGED notDisc

\* fs::read_dir(d)? succeeds
OpenDir ==
    /\ AtDir("scan")
    /\ scanning' = TRUE
    /\ scanned' = 0
    /\ UNCHANGED <<search_paths, dirIdx, plugins, native_libs, loads,
                   firstLoaded, dropped, lastFailed, discResult>>
    /\ UNCHANGED <<surface, pmDrops, unloaded>>
    /\ UNCHANGED notDisc

InScan ==
    /\ Discovering
    /\ scanning
    /\ scanned < MaxEntries
    /\ loads < MaxLoads

\* entry? fails
ScanEntryError ==
    /\ InScan
    /\ discResult' = "Err"
    /\ lastFailed' = TRUE
    /\ scanned' = scanned + 1
    /\ UNCHANGED <<search_paths, dirIdx, scanning, plugins, native_libs, loads,
                   firstLoaded, dropped>>
    /\ UNCHANGED <<surface, pmDrops, unloaded>>
    /\ UNCHANGED notDisc

\* a sub-directory with a Cargo.toml: the error is propagated with `?`
ScanProject ==
    /\ InScan
    /\ \E p \in Projects :
         LET res == build_and_load_rust_project(Reg, p)
         IN /\ SetReg(res.reg)
            /\ lastFailed' = ~res.ok
            /\ discResult' = IF res.ok THEN discResult ELSE "Err"
    /\ scanned' = scanned + 1
    /\ UNCHANGED <<search_paths, dirIdx, scanning>>
    /\ UNCHANGED <<surface, pmDrops, unloaded>>
    /\ UNCHANGED notDisc

\* a .so / .dylib / .dll file: the result is logged either way
ScanNative ==
    /\ InScan
    /\ \E f \in NativeFiles :
         LET res == load_native(Reg, f)
         IN /\ SetReg(res.reg)
            /\ lastFailed' = ~res.ok
    /\ scanned' = scanned + 1
    /\ UNCHANGED <<search_paths, dirIdx, scanning, discResult>>
    /\ UNCHANGED <<surface, pmDrops, unloaded>>
    /\ UNCHANGED notDisc

\* a .wasm file: the result is logged either way
ScanWasm ==
    /\ InScan
    /\ \E f \in WasmFiles :
         LET res == load_wasm(Reg, f)
         IN /\ SetReg(res.reg)
            /\ lastFailed' = ~res.ok
    /\ scanned' = scanned + 1
    /\ UNCHANGED <<search_paths, dirIdx, scanning, discResult>>
    /\ UNCHANGED <<surface, pmDrops, unloaded>>
    /\ UNCHANGED notDisc

\* any other entry
ScanOther ==
    /\ InScan
    /\ scanned' = scanned + 1
    /\ UNCHANGED <<search_paths, dirIdx, scanning, plugins, native_libs, loads,
                   firstLoaded, dropped, lastFailed, discResult>>
    /\ UNCHANGED <<surface, pmDrops, unloaded>>
    /\ UNCHANGED notDisc

\* the read_dir iterator is exhausted
EndScan ==
    /\ Discovering
    /\ scanning
    /\ scanning' = FALSE
    /\ dirIdx' = dirIdx + 1
    /\ UNCHANGED <<search_paths, scanned, plugins, native_libs, loads,
                   firstLoaded, dropped, lastFailed, discResult>>
    /\ UNCHANGED <<surface, pmDrops, unloaded>>
    /\ UNCHANGED notDisc

\* the for-loop over the search paths is over: Ok(())
FinishDiscovery ==
    /\ Discovering
    /\ ~scanning
    /\ dirIdx > Len(search_paths)
    /\ discResult' = "Ok"
    /\ UNCHANGED <<search_paths, dirIdx, scanning, scanned, plugins, native_libs,
                   loads, firstLoaded, dropped, lastFailed>>
    /\ UNCHANGED <<surface, pmDrops, unloaded>>
    /\ UNCHANGED notDisc

\* PluginManager::plugins_iter hands out the entries of the HashMap; the
\* keys build_root_cli has not been given yet
plugins_iter(m, seen) == DOMAIN m \ {seen[i].key : i \in 1..Len(seen)}

\* plugin.clap().get_name() of a registered object at composition time: a
\* WASM adapter asks the guest again, a native plugin builds its own command
composed_name(key, obj, answer) ==
    IF obj.kind = "wasm" THEN clap_name(answer) ELSE key

Composed == plugins_iter(plugins, surface) = {}

\* one turn of the for-loop of build_root_cli: root.subcommand(plugin.clap())
\* for the entry the HashMap iterator yields next
ComposeStep ==
    /\ discResult = "Ok"
    /\ pmDrops = 0
    /\ \E key \in plugins_iter(plugins, surface) :
         \E answer \in SpecAnswers :
           surface' = Append(surface,
                             [key |-> key,
                              name |-> composed_name(key, plugins[key], answer)])
    /\ UNCHANGED <<search_paths, dirIdx, scanning, scanned, plugins, native_libs,
                   loads, firstLoaded, dropped, lastFailed, discResult,
                   pmDrops, unloaded>>
    /\ UNCHANGED notDisc

\* struct fields are dropped in declaration order, first to last
drop_field_reversed(k) == <<"_native_libs", "plugins", "search_paths">>[k]

\* the k-th field of PluginManager that is dropped
drop_field(k) == <<"search_paths", "plugins", "_native_libs">>[k]

\* main returns (discovery failed with `?`, or dispatch is over; the root
\* command was moved into get_matches before) and `pm` is dropped, one
\* field at a time
DropField ==
    /\ \/ discResult = "Err"
       \/ discResult = "Ok" /\ Composed
    /\ pmDrops < 3
    /\ pmDrops' = pmDrops + 1
    /\ surface' = <<>>
    /\ LET field == drop_field(pmDrops + 1)
       IN /\ plugins' = IF field = "plugins" THEN EmptyMap ELSE plugins
          /\ dropped' = IF field = "plugins"
                        THEN dropped \cup {plugins[n].id : n \in DOMAIN plugins}
                        ELSE dropped
          /\ native_libs' = IF field = "_native_libs" THEN <<>> ELSE native_libs
          /\ unloaded' = IF field = "_native_libs"
                         THEN unloaded \cup
                              {native_libs[i] : i \in 1..Len(native_libs)}
                         ELSE unloaded
    /\ UNCHANGED <<search_paths, dirIdx, scanning, scanned, loads, firstLoaded,
                   lastFailed, discResult>>
    /\ UNCHANGED notDisc

--------------------------------------------------------------------------
\* Parse, dispatch and exit (cli.rs, main.rs)

MaxArgs == 3        \* tokens after the program name

Tokens == {"cargo", "mddoc", "build", "--alias", "--release"}

ArgVectors == UNION {[1..n -> Tokens] : n \in 0..MaxArgs}

IsFlag(t) == t \in {"--alias", "--release"}

\* exit codes the wrapped tool may end with
ToolExits == {0, 1, 101}

NoMatches == [kind |-> "none"]

\* clap exits the process itself (usage error or help on missing arguments)
ClapExit(code) == [kind |-> "exit", code |-> code]

\* the `cargo` subcommand of build_root_cli: no arguments of its own, any
\* first word is an external subcommand that takes the rest
ParseCargo(rest, alias) ==
    IF rest = <<>>
    THEN [kind |-> "matches", alias |-> alias, sub |-> "cargo", ext |-> FALSE,
          csub |-> "", rest |-> <<>>]
    ELSE IF IsFlag(Head(rest)) THEN ClapExit(2)
    ELSE [kind |-> "matches", alias |-> alias, sub |-> "cargo", ext |-> FALSE,
          csub |-> Head(rest), rest |-> Tail(rest)]

\* a plugin's subcommand: the command WasmPluginAdapter::clap builds declares
\* no argument, so any further token is a usage error; what a native
\* plugin's command accepts is the plugin's choice (accepts)
ParsePlugin(name, kind, rest, alias, accepts) ==
    IF rest # <<>> /\ (kind = "wasm" \/ ~accepts) THEN ClapExit(2)
    ELSE [kind |-> "matches", alias |-> alias, sub |-> name, ext |-> FALSE,
          csub |-> "", rest |-> rest]

\* the root command of build_root_cli: --alias, the subcommands in the order
\* they were added (cargo first), external subcommands allowed
RECURSIVE ParseRoot(_, _, _, _)
ParseRoot(reg, toks, alias, accepts) ==
    IF toks = <<>>
    THEN [kind |-> "matches", alias |-> alias, sub |-> "", ext |-> FALSE,
          csub |-> "", rest |-> <<>>]
    ELSE LET t == Head(toks) IN
         IF t = "--alias"
         THEN IF alias THEN ClapExit(2) ELSE ParseRoot(reg, Tail(toks), TRUE, accepts)
         ELSE IF IsFlag(t) THEN ClapExit(2)
         ELSE IF t = "cargo" THEN ParseCargo(Tail(toks), alias)
         ELSE IF t \in DOMAIN reg
              THEN ParsePlugin(t, reg[t].kind, Tail(toks), alias, accepts)
         ELSE [kind |-> "matches", alias |-> alias, sub |-> t, ext |-> TRUE,
               csub |-> "", rest |-> Tail(toks)]

\* build_root_cli(pm).get_matches(): arg_required_else_help prints the help
\* and exits with a usage error when no argument at all is given
get_matches(reg, args, accepts) ==
    IF args = <<>> THEN ClapExit(2) ELSE ParseRoot(reg, args, FALSE, accepts)

\* gather_raw_args: std::env::args().skip(2), and when that is empty the
\* values reconstructed from the ArgMatches
gather_raw_args(args, m) ==
    LET raw == IF Len(args) >= 1 THEN Tail(args) ELSE <<>>
    IN IF raw = <<>> THEN m.rest ELSE raw

\* what the environment answers during one dispatch
\* what a guest's _kargo_plugin_execute does: the call fails, or it returns
\* the JSON of an ExecutionResult with success true or false
GuestResults == {"call_error", "success", "failure"}

DispatchEnvs ==
    [which : BOOLEAN,                         \* `cargo` is found in PATH
     status : ToolExits \cup {-1},            \* exit code, -1: spawn failed
     cwd : BOOLEAN,                           \* env::current_dir() succeeds
     run : {"Ok", "Err"},                     \* what a native plugin's run yields
     guest : GuestResults]                    \* what a WASM plugin's guest does

\* WasmPluginAdapter::run: the output of the guest call is printed and the
\* future yields Ok(()); only a failed call is an error
wasm_run(guest) == IF guest = "call_error" THEN "Err" ELSE "Ok"

\* plugin.run(ctx).await for the registered object
plugin_run(obj, e) ==
    IF obj.kind = "wasm"
    THEN [guest |-> e.guest, result |-> wasm_run(e.guest)]
    ELSE [guest |-> "none", result |-> e.run]

NoRoute(result) == [runs |-> <<>>, spawns |-> <<>>, result |-> result]

\* tokio::process::Command::new(cargo).args(args).status().await? and the
\* bail on a non-zero status
SpawnCargo(args, e) ==
    IF ~e.which THEN NoRoute("Err")
    ELSE IF e.status = -1 THEN NoRoute("Err")
    ELSE [runs |-> <<>>,
          spawns |-> <<[args |-> args, code |-> e.status]>>,
          result |-> IF e.status = 0 THEN "Ok" ELSE "Err"]

\* proxy_to_cargo(command, args)
proxy_to_cargo(command, args, m, e) ==
    SpawnCargo(<<command>> \o gather_raw_args(args, m), e)

\* the Some(("cargo", sub)) arm of dispatch
DispatchCargoArm(m, e) ==
    IF ~e.which THEN NoRoute("Err")
    ELSE IF m.csub = "" THEN NoRoute("Err")          \* No cargo subcommand provided
    ELSE SpawnCargo(<<m.csub>> \o m.rest, e)

\* the Some((name, sub)) arm of dispatch for a registered plugin
DispatchPluginArm(reg, args, m, e) ==
    IF ~e.cwd THEN NoRoute("Err")
    ELSE LET r == plugin_run(reg[m.sub], e)
         IN [runs |-> <<[name |-> m.sub,
                         args |-> <<m.sub>> \o gather_raw_args(args, m),
                         guest |-> r.guest,
                         result |-> r.result]>>,
             spawns |-> <<>>,
             result |-> r.result]

\* a plugin arm without its else: the run falls through to the cargo proxy
DispatchPluginArmFallThrough(reg, args, m, e) ==
    LET r == DispatchPluginArm(reg, args, m, e)
        s == proxy_to_cargo(m.sub, args, m, e)
    IN [runs |-> r.runs, spawns |-> s.spawns, result |-> r.result]

\* if let Some(plugin) = pm.get(name) { run } of dispatch
DispatchPlugin(reg, args, m, e) == DispatchPluginArm(reg, args, m, e)

\* cli::dispatch
dispatch(reg, args, m, e) ==
    IF m.sub = "cargo" THEN DispatchCargoArm(m, e)
    ELSE IF m.sub # "" THEN
        IF m.sub \in DOMAIN reg THEN DispatchPlugin(reg, args, m, e)
        ELSE proxy_to_cargo(m.sub, args, m, e)
    ELSE NoRoute("panic")                             \* None => unreachable!()

\* the exit code of the process for what main returned
exit_code(result) ==
    CASE result = "Ok"    -> 0
      [] result = "Err"   -> 1
      [] result = "panic" -> 101

\* let matches = app.get_matches();
ParseArgs ==
    /\ dpc = "start"
    /\ \E a \in ArgVectors, accepts \in BOOLEAN :
         LET m == get_matches(plugins, a, accepts)
         IN /\ argv' = a
            /\ matches' = m
            /\ IF m.kind = "exit"
               THEN dpc' = "exited" /\ exitCode' = m.code
               ELSE dpc' = "parsed" /\ exitCode' = exitCode
    /\ UNCHANGED <<runLog, spawnLog, dispResult>>
    /\ UNCHANGED notDisp

\* dispatch(&pm, &matches).await
Dispatch ==
    /\ dpc = "parsed"
    /\ \E e \in DispatchEnvs :
         LET d == dispatch(plugins, argv, matches, e)
         IN /\ runLog' = runLog \o d.runs
            /\ spawnLog' = spawnLog \o d.spawns
            /\ dispResult' = d.result
    /\ dpc' = "dispatched"
    /\ UNCHANGED <<argv, matches, exitCode>>
    /\ UNCHANGED notDisp

\* main returns what dispatch returned
ExitProcess ==
    /\ dpc = "dispatched"
    /\ exitCode' = exit_code(dispResult)
    /\ dpc' = "exited"
    /\ UNCHANGED <<argv, matches, runLog, spawnLog, dispResult>>
    /\ UNCHANGED notDisp

\* registries discovery can leave behind
Registries ==
    UNION {[S -> [id : {1}, kind : {"native", "wasm"}]] : S \in SUBSET PluginNames}

--------------------------------------------------------------------------
\* Task manager (plugins/host/tasks.rs) and the spawn_kargo_task host
\* function (plugins/host/functions.rs)

MaxTasks  == 2      \* ids the counter of tasks.rs hands out
MaxCalls  == 3      \* ids the counter of host/functions.rs hands out
NumGuests == 2      \* guests calling spawn_kargo_task concurrently

Guests    == 1..NumGuests
TaskIds   == 1..MaxTasks

TaskNames == {"sleep", "unknown"}
task_registry == {"sleep"}                 \* names with a registered factory
TaskData  == {"d1", "d2"}                  \* what Task::run may return
TaskErrs  == {"e1"}                        \* errors Task::run may return

Running      == [st |-> "Running"]
Completed(d) == [st |-> "Completed", v |-> d]
Failed(e)    == [st |-> "Failed", v |-> e]

\* the spawned tokio task after task.run() returned, with the table lock not
\* taken: only the message is printed and the entry is left as it was
store_result_lock_failed(t, id, status) == t

\* the spawned tokio task after task.run() returned: the table is locked and
\* the entry of the task is overwritten with the result
store_result(t, id, status) == MapInsert(t, id, status)

TaskPending  == [tag |-> "TaskPending"]
Data(d)      == [tag |-> "Data", v |-> d]
Error(m)     == [tag |-> "Error", v |-> m]
Success      == [tag |-> "Success"]

IsTerminal(resp) == resp.tag \in {"Data", "Error"}

\* a counter that is read and not advanced
fetch_add_reuse(c) == [id |-> c, next |-> c]

\* TASK_ID_COUNTER.fetch_add(1, SeqCst) of tasks.rs
fetch_add(c) == [id |-> c, next |-> c + 1]

\* a load in place of the fetch_add
fn_fetch_add_load(c) == [id |-> c, next |-> c]

\* TASK_ID_COUNTER.fetch_add(1, SeqCst) of host/functions.rs
fn_fetch_add(c) == [id |-> c, next |-> c + 1]

\* the first half of TaskManager::spawn_task: factory lookup, task
\* construction, id allocation
spawn_task_alloc(counter, name, factoryOk) ==
    IF name \notin task_registry THEN [ok |-> FALSE, id |-> 0, next |-> counter]
    ELSE IF ~factoryOk THEN [ok |-> FALSE, id |-> 0, next |-> counter]
    ELSE LET a == fetch_add(counter) IN [ok |-> TRUE, id |-> a.id, next |-> a.next]

\* a poll that reports an unknown id as still pending
poll_task_unknown_pending(table, id) ==
    IF id \notin DOMAIN table THEN TaskPending
    ELSE CASE table[id].st = "Running"   -> TaskPending
           [] table[id].st = "Completed" -> Data(table[id].v)
           [] table[id].st = "Failed"    -> Error(table[id].v)

\* TaskManager::poll_task
poll_task(table, id) ==
    IF id \notin DOMAIN table THEN Error(<<"Task not found", id>>)
    ELSE CASE table[id].st = "Running"   -> TaskPending
           [] table[id].st = "Completed" -> Data(table[id].v)
           [] table[id].st = "Failed"    -> Error(table[id].v)

NoRequest == [task_id |-> 0, floor |-> 0]
NoTask    == [id |-> 0, floor |-> 0]

MaxOf(S) == IF S = {} THEN 0 ELSE CHOOSE x \in S : \A y \in S : y <= x


\* spawn_kargo_task: the id is taken from the counter of host/functions.rs
\* and the SpawnTask request is sent with try_send. When the channel does not
\* take it the reply sender is dropped, the receive fails at once and the
\* function returns (0, error).
HostSpawnCall(g) ==
    /\ gpc[g] = "idle"
    /\ fnCounter <= MaxCalls
    /\ \E sendOk \in BOOLEAN :
         LET a == fn_fetch_add(fnCounter)
         IN /\ fnCounter' = a.next
            /\ greq' = [greq EXCEPT ![g] =
                           IF sendOk
                           THEN [task_id |-> a.id, floor |-> MaxOf(guestRet)]
                           ELSE NoRequest]
            /\ gpc' = [gpc EXCEPT ![g] = IF sendOk THEN "sent" ELSE "idle"]
    /\ UNCHANGED <<taskCounter, tasks, jobs, gtask, spawnRet, guestRet,
                   seenTerminal, writes>>
    /\ UNCHANGED notTask

\* the request is handled: TaskManager::spawn_task looks the factory up,
\* constructs the task and takes its id from the counter of tasks.rs. When
\* it fails the request is answered Error and spawn_kargo_task returns
\* (0, error).
AdmitAlloc(g) ==
    /\ gpc[g] = "sent"
    /\ taskCounter <= MaxTasks
    /\ \E name \in TaskNames, factoryOk \in BOOLEAN :
         LET r == spawn_task_alloc(taskCounter, name, factoryOk)
         IN /\ taskCounter' = r.next
            /\ gtask' = [gtask EXCEPT ![g] =
                            IF r.ok
                            THEN [id |-> r.id, floor |-> MaxOf(spawnRet)]
                            ELSE NoTask]
            /\ greq' = [greq EXCEPT ![g] = IF r.ok THEN @ ELSE NoRequest]
            /\ gpc' = [gpc EXCEPT ![g] = IF r.ok THEN "admitting" ELSE "idle"]
    /\ UNCHANGED <<fnCounter, tasks, jobs, spawnRet, guestRet,
                   seenTerminal, writes>>
    /\ UNCHANGED notTask

\* the second half of spawn_task: Running is stored under the id, the task
\* is handed to tokio::spawn, Ok(id) is returned and the request answered
\* Success
AdmitStore(g) ==
    /\ gpc[g] = "admitting"
    /\ tasks' = MapInsert(tasks, gtask[g].id, Running)
    /\ writes' = [writes EXCEPT ![gtask[g].id] = @ + 1]
    /\ jobs' = jobs \cup {gtask[g].id}
    /\ spawnRet' = spawnRet \cup {gtask[g].id}
    /\ gtask' = [gtask EXCEPT ![g] = NoTask]
    /\ gpc' = [gpc EXCEPT ![g] = "admitted"]
    /\ UNCHANGED <<taskCounter, fnCounter, greq, guestRet,
                   seenTerminal>>
    /\ UNCHANGED notTask

\* the host function's receive returns Success and it writes its outputs:
\* the id it put into the request
HostSpawnReturn(g) ==
    /\ gpc[g] = "admitted"
    /\ guestRet' = guestRet \cup {greq[g].task_id}
    /\ gpc' = [gpc EXCEPT ![g] = "idle"]
    /\ greq' = [greq EXCEPT ![g] = NoRequest]
    /\ UNCHANGED <<taskCounter, fnCounter, tasks, jobs, gtask, spawnRet,
                   seenTerminal, writes>>
    /\ UNCHANGED notTask

\* the spawned tokio task: task.run() returns and the result is stored
TaskRunOk(id) ==
    /\ id \in jobs
    /\ \E d \in TaskData : tasks' = store_result(tasks, id, Completed(d))
    /\ writes' = [writes EXCEPT ![id] = @ + 1]
    /\ jobs' = jobs \ {id}
    /\ UNCHANGED <<taskCounter, fnCounter, gpc, greq, gtask, spawnRet, guestRet,
                   seenTerminal>>
    /\ UNCHANGED notTask

TaskRunErr(id) ==
    /\ id \in jobs
    /\ \E e \in TaskErrs : tasks' = store_result(tasks, id, Failed(e))
    /\ writes' = [writes EXCEPT ![id] = @ + 1]
    /\ jobs' = jobs \ {id}
    /\ UNCHANGED <<taskCounter, fnCounter, gpc, greq, gtask, spawnRet, guestRet,
                   seenTerminal>>
    /\ UNCHANGED notTask

\* TaskManager::poll_task(id) returns a terminal response for the first
\* time: it is remembered (polls change nothing else)
PollTask(id) ==
    /\ id \in DOMAIN tasks
    /\ id \notin DOMAIN seenTerminal
    /\ IsTerminal(poll_task(tasks, id))
    /\ seenTerminal' = MapInsert(seenTerminal, id, poll_task(tasks, id))
    /\ UNCHANGED <<taskCounter, fnCounter, tasks, jobs, gpc, greq, gtask,
                   spawnRet, guestRet, writes>>
    /\ UNCHANGED notTask

--------------------------------------------------------------------------
\* WASM adapter (plugins/wasm_adapter.rs), its host functions and request
\* consumer (plugins/host_functions.rs), and the host functions of
\* plugins/host/functions.rs

NumCallers   == 2   \* concurrent callers of one adapter
MaxHostCalls == 2   \* host-function calls guests make in one behaviour

ChannelCapacity == 32    \* mpsc::channel(32)

Callers == 1..NumCallers

\* the host functions a guest can import: log and read_file of
\* host_functions.rs, log_message and read_file of host/functions.rs
HostFns == {[fam |-> "live", kind |-> "Log"],
            [fam |-> "live", kind |-> "ReadFile"],
            [fam |-> "host", kind |-> "LogMessage"],
            [fam |-> "host", kind |-> "ReadFile"]}

\* "async": the thread is driving asynchronous tasks of the runtime;
\* "blocking": a thread that is allowed to block
Contexts == {"async", "blocking"}

Unlocked == [holder |-> 0, poisoned |-> FALSE]

\* a lock that does not wait for the holder
lock_no_wait(m, c) ==
    IF m.poisoned THEN [got |-> FALSE, wait |-> FALSE, m |-> m]
    ELSE [got |-> TRUE, wait |-> FALSE, m |-> [m EXCEPT !.holder = c]]

\* Mutex::lock as json_call and run use it: waits while the mutex is held,
\* fails on a poisoned mutex (the guard inside the error is dropped by
\* map_err), otherwise the caller holds the guard
lock(m, c) ==
    IF m.holder # 0 THEN [got |-> FALSE, wait |-> TRUE, m |-> m]
    ELSE IF m.poisoned THEN [got |-> FALSE, wait |-> FALSE, m |-> m]
    ELSE [got |-> TRUE, wait |-> FALSE, m |-> [m EXCEPT !.holder = c]]

\* the guard is dropped: on return, or while a panic unwinds
unlock(m, panicking) ==
    [holder |-> 0, poisoned |-> m.poisoned \/ panicking]

\* the thread the guest executes on: run and json_call call Plugin::call
\* directly, on the thread that polls them
run_context(callerCtx) == callerCtx

\* blocking_send and blocking_recv panic in an asynchronous execution context
blocking_panics(ctx) == ctx = "async"

\* Sender::try_send of host/functions.rs: the request is queued unless the
\* receiver is gone (Closed) or, with a receiver, the channel holds as many
\* requests as it has room for (Full)
try_send(open, full) == open /\ ~full

NewRequest(f, acc, full) ==
    [fam |-> f.fam, kind |-> f.kind, accepted |-> acc, full |-> full,
     nsent |-> 0, resp |-> "none", dropped |-> ~acc, handled |-> FALSE,
     returned |-> FALSE, status |-> -1]

\* a reply that is never sent
reply_send_lost(r, resp) == r

\* reply.send(response) in handle_requests
reply_send(r, resp) == [r EXCEPT !.nsent = @ + 1, !.resp = resp]

\* what read_file_fn returns to the guest for what blocking_recv returned
read_file_fn_result(r) ==
    IF r.resp = "Text" THEN "Ok" ELSE "Err"

\* the status output log_message and read_file of host/functions.rs write
\* for what blocking_recv returned: 0 success, 1 error
host_status(r) ==
    CASE r.kind = "LogMessage" -> IF r.resp = "Success" THEN 0 ELSE 1
      [] r.kind = "ReadFile"   -> IF r.resp = "Data" THEN 0 ELSE 1

\* callers whose guest call is executing in the module
InGuest == {c \in Callers : cpc[c] \in {"guest", "waitReply"}}

\* PluginCommand::run or PluginCommand::clap (json_call) is called on the
\* adapter, from a thread in context ctx
Invoke(c) ==
    /\ cpc[c] = "idle"
    /\ \E op \in {"run", "clap"}, ctx \in Contexts :
         /\ cop' = [cop EXCEPT ![c] = op]
         /\ cctx' = [cctx EXCEPT ![c] = run_context(ctx)]
    /\ cpc' = [cpc EXCEPT ![c] = "locking"]
    /\ UNCHANGED <<mutex, cres, chan, hopen, hchan, consumer, reqs, cur, entered>>
    /\ UNCHANGED notBridge

\* plugin.lock(): the guard is taken and Plugin::call enters the guest, or
\* the mutex is poisoned and the call returns "Failed to lock plugin mutex"
Lock(c) ==
    /\ cpc[c] = "locking"
    /\ LET l == lock(mutex, c)
       IN /\ ~l.wait
          /\ mutex' = l.m
          /\ cpc' = [cpc EXCEPT ![c] = IF l.got THEN "guest" ELSE "returned"]
          /\ cres' = [cres EXCEPT ![c] = IF l.got THEN @ ELSE "Err"]
          /\ entered' = IF l.got THEN Append(entered, c) ELSE entered
    /\ UNCHANGED <<cop, cctx, chan, hopen, hchan, consumer, reqs, cur>>
    /\ UNCHANGED notBridge

\* the guest calls log or read_file of host_functions.rs: blocking_send
\* queues the request (waiting while the channel is full) and the function
\* goes on to blocking_recv; in an asynchronous context blocking_send panics
\* before anything is sent, and the unwinding poisons the module mutex
GuestCallLive(c) ==
    /\ cpc[c] = "guest"
    /\ Len(reqs) < MaxHostCalls
    /\ \E f \in {h \in HostFns : h.fam = "live"} :
         IF blocking_panics(cctx[c])
         THEN /\ cpc' = [cpc EXCEPT ![c] = "panicked"]
              /\ cres' = [cres EXCEPT ![c] = "panic"]
              /\ mutex' = unlock(mutex, TRUE)
              /\ UNCHANGED <<chan, reqs, cur>>
         ELSE /\ Len(chan) < ChannelCapacity
              /\ reqs' = Append(reqs, NewRequest(f, TRUE, FALSE))
              /\ chan' = Append(chan, Len(reqs) + 1)
              /\ cur' = [cur EXCEPT ![c] = Len(reqs) + 1]
              /\ cpc' = [cpc EXCEPT ![c] = "waitReply"]
              /\ UNCHANGED <<cres, mutex>>
    /\ UNCHANGED <<cop, cctx, hopen, hchan, consumer, entered>>
    /\ UNCHANGED notBridge

\* the guest calls log_message or read_file of host/functions.rs: try_send
\* queues the request or, when the channel does not take it (the receiver
\* is gone, or the senders sharing the channel have filled it), hands it
\* back and it is dropped with its reply sender; then blocking_recv, which
\* panics in an asynchronous context
HostCall(c, full) ==
    /\ cpc[c] = "guest"
    /\ Len(reqs) < MaxHostCalls
    /\ \E f \in {h \in HostFns : h.fam = "host"} :
         /\ reqs' = Append(reqs, NewRequest(f, try_send(hopen, full), full))
         /\ hchan' = IF try_send(hopen, full)
                      THEN hchan \cup {Len(reqs) + 1} ELSE hchan
         /\ cur' = [cur EXCEPT ![c] = Len(reqs) + 1]
    /\ IF blocking_panics(cctx[c])
       THEN /\ cpc' = [cpc EXCEPT ![c] = "panicked"]
            /\ cres' = [cres EXCEPT ![c] = "panic"]
            /\ mutex' = unlock(mutex, TRUE)
       ELSE /\ cpc' = [cpc EXCEPT ![c] = "waitReply"]
            /\ UNCHANGED <<cres, mutex>>
    /\ UNCHANGED <<cop, cctx, chan, hopen, consumer, entered>>
    /\ UNCHANGED notBridge

\* the host call of a guest whose adapter is the only sender of the channel:
\* its calls are serialized and each waits for its reply, so the channel
\* has room
GuestCallHost(c) == HostCall(c, FALSE)

\* the host call of a guest while the other senders of a shared channel
\* have filled it
GuestCallHostFull(c) ==
    /\ hopen
    /\ HostCall(c, TRUE)

\* handle_requests: rx.recv() yields the next request. A Log request is
\* printed and answered Ok; a ReadFile request starts the file read.
ConsumerRecv ==
    /\ consumer = 0
    /\ chan # <<>>
    /\ LET r == Head(chan)
       IN IF reqs[r].kind = "Log"
          THEN /\ reqs' = [reqs EXCEPT ![r] =
                             [reply_send(@, "Ok") EXCEPT !.handled = TRUE]]
               /\ consumer' = 0
          ELSE /\ consumer' = r
               /\ UNCHANGED reqs
    /\ chan' = Tail(chan)
    /\ UNCHANGED <<mutex, cpc, cop, cctx, cres, hopen, hchan, cur, entered>>
    /\ UNCHANGED notBridge

\* handle_requests: read_to_string completes and the ReadFile request is
\* answered Text or Error
ConsumerReadDone ==
    /\ consumer # 0
    /\ \E resp \in {"Text", "Error"} :
         reqs' = [reqs EXCEPT ![consumer] =
                    [reply_send(@, resp) EXCEPT !.handled = TRUE]]
    /\ consumer' = 0
    /\ UNCHANGED <<mutex, cpc, cop, cctx, cres, chan, hopen, hchan, cur, entered>>
    /\ UNCHANGED notBridge

\* the receiver of the host/ functions' channel is dropped: the requests
\* queued in it are dropped, and their reply senders with them
CloseHostChannel ==
    /\ hopen
    /\ hopen' = FALSE
    /\ reqs' = [i \in DOMAIN reqs |->
                  IF i \in hchan THEN [reqs[i] EXCEPT !.dropped = TRUE]
                  ELSE reqs[i]]
    /\ hchan' = {}
    /\ UNCHANGED <<mutex, cpc, cop, cctx, cres, chan, consumer, cur, entered>>
    /\ UNCHANGED notBridge

\* blocking_recv returns: a response, or an error because the reply sender
\* was dropped. log_fn returns Ok(()) whatever it received; read_file_fn
\* returns the text or an error, which ends the guest call; the functions of
\* host/functions.rs write their status output and the guest goes on.
HostFnReturn(c) ==
    /\ cpc[c] = "waitReply"
    /\ LET r == reqs[cur[c]]
           trap == r.fam = "live" /\ r.kind = "ReadFile"
                   /\ read_file_fn_result(r) = "Err"
           st == IF r.fam = "host" THEN host_status(r)
                 ELSE IF trap THEN 1 ELSE 0
       IN /\ r.nsent > 0 \/ r.dropped
          /\ reqs' = [reqs EXCEPT ![cur[c]] =
                        [@ EXCEPT !.returned = TRUE, !.status = st]]
          /\ cpc' = [cpc EXCEPT ![c] = IF trap THEN "returned" ELSE "guest"]
          /\ cres' = [cres EXCEPT ![c] = IF trap THEN "Err" ELSE @]
          /\ mutex' = IF trap THEN unlock(mutex, FALSE) ELSE mutex
    /\ cur' = [cur EXCEPT ![c] = 0]
    /\ UNCHANGED <<cop, cctx, chan, hopen, hchan, consumer, entered>>
    /\ UNCHANGED notBridge

\* the guest function returns its output or an error; the guard is dropped
GuestFinish(c) ==
    /\ cpc[c] = "guest"
    /\ \E res \in {"Ok", "Err"} : cres' = [cres EXCEPT ![c] = res]
    /\ mutex' = unlock(mutex, FALSE)
    /\ cpc' = [cpc EXCEPT ![c] = "returned"]
    /\ UNCHANGED <<cop, cctx, chan, hopen, hchan, consumer, reqs, cur, entered>>
    /\ UNCHANGED notBridge

--------------------------------------------------------------------------
\* PackageSpec::parse (plugins/native/kargo-mddoc/src/kargo/package.rs).
\* A string is a sequence of characters.

MaxSpecLen == 4     \* characters of a package specification

\* one character of each class the parser tells apart; "e'" is a letter
\* outside ASCII
Chars == {"a", "e'", "1", "-", "_", "@", " "}

Strings == UNION {[1..n -> Chars] : n \in 0..MaxSpecLen}

\* [a-zA-Z]
IsAsciiLetter(ch) == ch = "a"

\* [a-zA-Z0-9_-]
IsNameChar(ch) == ch \in {"a", "1", "-", "_"}

\* char::is_whitespace
IsWhitespace(ch) == ch = " "

\* str::split('@'): the pieces between the separators, at least one
RECURSIVE split(_, _)
split(str, sep) ==
    IF \A i \in 1..Len(str) : str[i] # sep THEN <<str>>
    ELSE LET k == CHOOSE i \in 1..Len(str) :
                    str[i] = sep /\ \A j \in 1..(i - 1) : str[j] # sep
         IN <<SubSeq(str, 1, k - 1)>> \o split(SubSeq(str, k + 1, Len(str)), sep)

\* str::trim
RECURSIVE trim(_)
trim(str) ==
    IF str = <<>> THEN str
    ELSE IF IsWhitespace(Head(str)) THEN trim(Tail(str))
    ELSE IF IsWhitespace(str[Len(str)]) THEN trim(SubSeq(str, 1, Len(str) - 1))
    ELSE str

\* a name check that lets any name character start the name
is_valid_package_name_any_start(name) ==
    /\ name # <<>>
    /\ \A i \in 1..Len(name) : IsNameChar(name[i])

\* PackageSpec::is_valid_package_name: ^[a-zA-Z][a-zA-Z0-9_-]*$
is_valid_package_name(name) ==
    /\ name # <<>>
    /\ IsAsciiLetter(name[1])
    /\ \A i \in 2..Len(name) : IsNameChar(name[i])

NoVersion == [some |-> FALSE, v |-> <<>>]
SomeVersion(v) == [some |-> TRUE, v |-> v]

NotParsed == [kind |-> "none", name |-> <<>>, version |-> NoVersion]
ParseErr(kind) == [kind |-> kind, name |-> <<>>, version |-> NoVersion]

\* PackageSpec::parse
parse(spec) ==
    LET parts == split(spec, "@")
    IN CASE Len(parts) = 1 ->
              IF is_valid_package_name(trim(parts[1]))
              THEN [kind |-> "Ok", name |-> trim(parts[1]), version |-> NoVersion]
              ELSE ParseErr("InvalidPackageName")
         [] Len(parts) = 2 ->
              IF is_valid_package_name(trim(parts[1]))
              THEN [kind |-> "Ok", name |-> trim(parts[1]),
                    version |-> SomeVersion(trim(parts[2]))]
              ELSE ParseErr("InvalidPackageName")
         [] OTHER -> ParseErr("PackageSpecParse")

\* a caller hands a string to PackageSpec::parse
ParsePackageSpec ==
    /\ pkgOut = NotParsed
    /\ pkgOut' = parse(pkgIn)
    /\ UNCHANGED pkgIn
    /\ UNCHANGED <<projVars, fsVars, envVars, pollVars>>
    /\ UNCHANGED restVars
    /\ UNCHANGED notLib

--------------------------------------------------------------------------
\* One call of build_and_load_rust_project on an empty registry

NoProject ==
    [src |-> FALSE, art |-> FALSE, meta |-> TRUE, srcMax |-> 0, artMod |-> 0,
     build |-> "ok", libAfter |-> TRUE,
     lib |-> [open |-> "error", symbol |-> "ok", name |-> "mddoc"]]

NotBuilt == [called |-> FALSE, ok |-> FALSE, built |-> FALSE, loaded |-> {}]

BuildAndLoad ==
    /\ ~projOut.called
    /\ LET res == build_and_load_rust_project(RegEmpty, proj)
       IN projOut' = [called |-> TRUE, ok |-> res.ok, built |-> res.built,
                      loaded |-> DOMAIN res.reg.plugins]
    /\ UNCHANGED <<proj, newestSource>>
    /\ UNCHANGED <<pkgVars, fsVars, envVars, pollVars>>
    /\ UNCHANGED restVars
    /\ UNCHANGED notLib

--------------------------------------------------------------------------
\* The classification of paths in discover_and_load_plugins

Hosts == {"linux", "macos", "windows"}

\* extensions a path may carry; "" is none
Exts == {"so", "dylib", "dll", "wasm", "toml", ""}

\* a search path entry (top) or an entry read_dir yields for one; read_dir
\* yields only paths that exist, and only a directory holds a Cargo.toml
FsEntries ==
    {e \in [top : BOOLEAN, exists : BOOLEAN, dir : BOOLEAN,
            manifest : BOOLEAN, ext : Exts] :
       /\ ~e.top => e.exists
       /\ ~e.exists => ~e.dir
       /\ ~e.dir => ~e.manifest}

NoEntry == [top |-> TRUE, exists |-> FALSE, dir |-> FALSE,
            manifest |-> FALSE, ext |-> ""]

\* what the for-loop does with a search path entry d
classify_search_path(e) ==
    IF ~e.dir THEN "none"                       \* if !d.is_dir() { continue; }
    ELSE IF e.manifest THEN "project"
    ELSE "scan"

\* what the read_dir loop does with the path of an entry
classify_child(e) ==
    IF e.dir /\ e.manifest THEN "project"
    ELSE CASE e.ext \in {"so", "dylib", "dll"} -> "native"
           [] e.ext = "wasm" -> "wasm"
           [] OTHER -> "none"

\* discover_and_load_plugins looks at one path
Classify ==
    /\ fsOut = "unseen"
    /\ fsOut' = IF fsEntry.top THEN classify_search_path(fsEntry)
                ELSE classify_child(fsEntry)
    /\ UNCHANGED <<fsEntry, host>>
    /\ UNCHANGED <<pkgVars, projVars, envVars, pollVars>>
    /\ UNCHANGED restVars
    /\ UNCHANGED notLib

--------------------------------------------------------------------------
\* PluginManager::new: the search path

MaxOverride == 2    \* entries of KARGO_PLUGIN_PATH
MaxWs == 1          \* children of plugins/native and of plugins/wasm

\* directories are numbers; a path entry says which step of new() pushed it
Entry(part, id) == [part |-> part, id |-> id]

\* KARGO_PLUGIN_PATH: unset, or a list of directories
Overrides ==
    {[set |-> FALSE, v |-> <<>>]}
    \cup {[set |-> TRUE, v |-> v] :
            v \in UNION {[1..n -> 1..2] : n \in 0..MaxOverride}}

Envs ==
    [override : Overrides,
     marker : BOOLEAN,                                    \* CARGO_MANIFEST_DIR is set
     native : UNION {[1..n -> {"project", "file"}] : n \in 0..MaxWs},
     wasm : UNION {[1..n -> {"project", "wasm", "file"}] : n \in 0..MaxWs},
     cfg : BOOLEAN]                                       \* dirs::config_dir() is Some

NoEnv == [override |-> [set |-> FALSE, v |-> <<>>], marker |-> FALSE,
          native |-> <<>>, wasm |-> <<>>, cfg |-> FALSE]

\* the loop over plugins/native: a sub-directory with a Cargo.toml is pushed
RECURSIVE native_siblings(_, _)
native_siblings(children, i) ==
    IF i > Len(children) THEN <<>>
    ELSE (IF children[i] = "project" THEN <<Entry("ws", 10 + i)>> ELSE <<>>)
         \o native_siblings(children, i + 1)

\* the loop over plugins/wasm: a sub-directory with a Cargo.toml is pushed,
\* and for a .wasm file its parent, plugins/wasm itself (directory 20)
RECURSIVE wasm_siblings(_, _)
wasm_siblings(children, i) ==
    IF i > Len(children) THEN <<>>
    ELSE (CASE children[i] = "project" -> <<Entry("ws", 20 + i)>>
            [] children[i] = "wasm" -> <<Entry("ws", 20)>>
            [] OTHER -> <<>>)
         \o wasm_siblings(children, i + 1)

\* a search path that starts with the defaults
PluginManager_new_defaults_first(env) ==
    (IF env.cfg THEN <<Entry("user", 0)>> ELSE <<>>)
    \o <<Entry("local", 0)>>
    \o [i \in 1..Len(env.override.v) |-> Entry("env", env.override.v[i])]
    \o (IF env.marker
        THEN native_siblings(env.native, 1) \o wasm_siblings(env.wasm, 1)
        ELSE <<>>)

\* PluginManager::new
PluginManager_new(env) ==
    [i \in 1..Len(env.override.v) |-> Entry("env", env.override.v[i])]
    \o (IF env.marker
        THEN native_siblings(env.native, 1) \o wasm_siblings(env.wasm, 1)
        ELSE <<>>)
    \o (IF env.cfg THEN <<Entry("user", 0)>> ELSE <<>>)
    \o <<Entry("local", 0)>>

\* main calls PluginManager::new()
NewManager ==
    /\ pathOut = <<>>
    /\ pathOut' = PluginManager_new(envIn)
    /\ UNCHANGED envIn
    /\ UNCHANGED <<pkgVars, projVars, fsVars, pollVars>>
    /\ UNCHANGED restVars
    /\ UNCHANGED notLib

EnvIdle ==
    /\ envIn = NoEnv
    /\ pathOut = <<>>

--------------------------------------------------------------------------
\* The poll_kargo_task host function

MaxDataLen == 3     \* bytes of a task's data, text or error message

\* what reply_rx.blocking_recv() returns: a response of the Bridge, or an
\* error because the reply sender was dropped
PollReplies == {"TaskPending", "Data", "Text", "Error", "Success", "Dropped"}

\* offsets plugin.memory().allocate may return
Offsets == {0, 8}

PollInputs ==
    [reply : PollReplies, len : 0..MaxDataLen, alloc : BOOLEAN, ptr : Offsets]

\* an output slot nothing was written to
Unwritten == -1

NoOutputs == <<Unwritten, Unwritten, Unwritten, Unwritten>>

\* "Unknown error in poll_kargo_task"
UnknownErrorLen == 32

\* the closure of register_poll_kargo_task: the result of the call and
\* outputs[0..3] = (ready, status, data_ptr, data_len)
poll_kargo_task(in) ==
    CASE in.reply = "TaskPending" ->
           [ok |-> TRUE, out |-> <<0, Unwritten, Unwritten, Unwritten>>]
      [] ~in.alloc ->                                    \* allocate(..)?
           [ok |-> FALSE, out |-> NoOutputs]
      [] in.reply \in {"Data", "Text"} ->
           [ok |-> TRUE, out |-> <<1, 0, in.ptr, in.len>>]
      [] in.reply = "Error" ->
           [ok |-> TRUE, out |-> <<1, 1, in.ptr, in.len>>]
      [] OTHER ->
           [ok |-> TRUE, out |-> <<1, 1, in.ptr, UnknownErrorLen>>]

NotPolled == [called |-> FALSE, ok |-> FALSE, out |-> NoOutputs]

\* the guest calls poll_kargo_task
PollKargoTask ==
    /\ ~pollOut.called
    /\ pollOut' = [called |-> TRUE, ok |-> poll_kargo_task(pollIn).ok,
                   out |-> poll_kargo_task(pollIn).out]
    /\ UNCHANGED pollIn
    /\ UNCHANGED <<pkgVars, projVars, fsVars, envVars>>
    /\ UNCHANGED restVars
    /\ UNCHANGED notLib

--------------------------------------------------------------------------
\* BackupManager (src/kargo-cli/src/backup.rs)

BkDirs   == {"a", "b"}
BkNames  == {"Cargo.toml", "Cargo.lock"}
Contents == {"v1", "v2"}

\* the files DependencyUpdater finds and backs up
BkPaths == [dir : BkDirs, name : BkNames]

\* a path that ends in "..": Path::file_name answers None for it
DotDot == [dir |-> "a", name |-> ".."]

\* BackupManager.backup_dir, a fresh temporary directory
backup_dir == "tmp"

\* Path::file_name: the last component, as an Option
file_name(path) == IF path.name = ".." THEN <<>> ELSE <<path.name>>

\* Path::join of a directory and a relative name
join(dir, rel) == [dir |-> dir, name |-> rel]

\* fs::copy(from, to): the content of `from` replaces the content of `to`
fs_copy(fs, from, to) ==
    IF from \in DOMAIN fs
    THEN [ok |-> TRUE, fs |-> MapInsert(fs, to, fs[from])]
    ELSE [ok |-> FALSE, fs |-> fs]

\* BackupManager::backup_file
backup_file(fs, chg, path) ==
    IF file_name(path) = <<>>
    THEN [ok |-> FALSE, fs |-> fs, changes |-> chg]
    ELSE LET backup_path == join(backup_dir, file_name(path)[1])
             c == fs_copy(fs, path, backup_path)
         IN IF ~c.ok
            THEN [ok |-> FALSE, fs |-> fs, changes |-> chg]
            ELSE [ok |-> TRUE, fs |-> c.fs,
                  changes |-> Append(chg, [path |-> path,
                                           backup_path |-> backup_path])]

\* BackupManager::rollback: the changes are copied back in the order they
\* were pushed, stopping at the first copy that fails
RECURSIVE rollback(_, _)
rollback(fs, chg) ==
    IF chg = <<>> THEN [ok |-> TRUE, fs |-> fs]
    ELSE LET c == fs_copy(fs, Head(chg).backup_path, Head(chg).path)
         IN IF ~c.ok THEN [ok |-> FALSE, fs |-> c.fs]
            ELSE rollback(c.fs, Tail(chg))

BackedUp == {changes[i].path : i \in DOMAIN changes}

\* run_impl backs up one more of the files it found
BackupFile(path) ==
    /\ bkPhase = "backup"
    /\ path \notin BackedUp
    /\ LET r == backup_file(bkFiles, changes, path)
       IN /\ bkFiles' = r.fs
          /\ changes' = r.changes
          /\ bkRes' = IF r.ok THEN "Ok" ELSE "Err"
          /\ bkOrig' = IF r.ok THEN MapInsert(bkOrig, path, bkFiles[path])
                       ELSE bkOrig
    /\ UNCHANGED bkPhase
    /\ UNCHANGED <<oldLibVars, symVars>>
    /\ UNCHANGED notLib

\* the update rewrites a file
ModifyFile(path, content) ==
    /\ bkPhase \in {"backup", "modify"}
    /\ changes # <<>>
    /\ bkFiles[path] # content
    /\ bkFiles' = MapInsert(bkFiles, path, content)
    /\ bkPhase' = "modify"
    /\ UNCHANGED <<changes, bkOrig, bkRes>>
    /\ UNCHANGED <<oldLibVars, symVars>>
    /\ UNCHANGED notLib

\* the update failed and the job rolls back
Rollback ==
    /\ bkPhase \in {"backup", "modify"}
    /\ changes # <<>>
    /\ bkFiles' = rollback(bkFiles, changes).fs
    /\ bkRes' = IF rollback(bkFiles, changes).ok THEN "Ok" ELSE "Err"
    /\ bkPhase' = "rolled"
    /\ UNCHANGED <<changes, bkOrig>>
    /\ UNCHANGED <<oldLibVars, symVars>>
    /\ UNCHANGED notLib

BkIdle ==
    /\ bkFiles = [p \in BkPaths |-> "v1"]
    /\ changes = <<>>
    /\ bkOrig = EmptyMap
    /\ bkPhase = "rolled"
    /\ bkRes = "none"

--------------------------------------------------------------------------
\* The #[plugin] attribute macro (kargo-plugin-macros) and the constructor
\* lookup of PluginManager::load_native

\* names of the function the attribute is put on
Idents == {"plugin", "create", "build", "kargo_plugin_create", "command"}

\* a plugin library: written with the macro or with the constructor spelled
\* out by hand as in the native template; the annotated function may itself
\* be exported unmangled
PluginLibs == [how : {"macro", "hand"}, ident : Idents,
               vis : {"pub", "pub(crate)", ""}, no_mangle : BOOLEAN]

NoLib == [how |-> "hand", ident |-> "plugin", vis |-> "", no_mangle |-> FALSE]

\* the unmangled symbols of the items the macro emits: the annotated function
\* as it was written, the wrapper (mangled, never an exported C symbol) and
\* the #[no_mangle] constructor
plugin(lib) ==
    (IF lib.no_mangle THEN {lib.ident} ELSE {}) \cup {"_kargo_plugin_create"}

\* the constructor of the native template, written by hand
template_exports(lib) ==
    (IF lib.no_mangle THEN {lib.ident} ELSE {}) \cup {"kargo_plugin_create"}

exports(lib) == IF lib.how = "macro" THEN plugin(lib) ELSE template_exports(lib)

\* load_native: arc.get(b"kargo_plugin_create")
load_native_ctor(symbols) ==
    IF "kargo_plugin_create" \in symbols THEN "Ok" ELSE "Err"

ResolveCtor ==
    /\ ctorOut = "none"
    /\ ctorOut' = load_native_ctor(exports(libIn))
    /\ UNCHANGED libIn
    /\ UNCHANGED <<oldLibVars, bkVars>>
    /\ UNCHANGED notLib

SymIdle ==
    /\ libIn = NoLib
    /\ ctorOut = "done"

PollIdle ==
    /\ pollIn = [reply |-> "Dropped", len |-> 0, alloc |-> TRUE, ptr |-> 0]
    /\ pollOut = NotPolled

PkgIdle ==
    /\ pkgIn = <<>>
    /\ pkgOut = NotParsed

ProjIdle ==
    /\ proj = NoProject
    /\ newestSource = 0
    /\ projOut = NotBuilt

FsIdle ==
    /\ fsEntry = NoEntry
    /\ host = "linux"
    /\ fsOut = "unseen"

LibIdle ==
    /\ PkgIdle /\ ProjIdle /\ FsIdle /\ EnvIdle /\ PollIdle
    /\ BkIdle /\ SymIdle

--------------------------------------------------------------------------
\* PluginManager::new leaves at least the project-local default in the path
SearchPathSets ==
    UNION {[1..n -> DirKinds] : n \in 1..MaxPaths}

DiscInit ==
    /\ search_paths \in SearchPathSets
    /\ dirIdx = 1
    /\ scanning = FALSE
    /\ scanned = 0
    /\ plugins = EmptyMap
    /\ native_libs = <<>>
    /\ loads = 0
    /\ firstLoaded = EmptyMap
    /\ dropped = {}
    /\ lastFailed = FALSE
    /\ discResult = "running"
    /\ surface = <<>>
    /\ pmDrops = 0
    /\ unloaded = {}

\* the other parts at rest
DispIdle ==
    /\ argv = <<>>
    /\ dpc = "start"
    /\ matches = NoMatches
    /\ runLog = <<>>
    /\ spawnLog = <<>>
    /\ dispResult = "none"
    /\ exitCode = -1

TaskIdle ==
    /\ taskCounter = 1
    /\ fnCounter = 1
    /\ tasks = EmptyMap
    /\ jobs = {}
    /\ gpc = [g \in Guests |-> "idle"]
    /\ greq = [g \in Guests |-> NoRequest]
    /\ gtask = [g \in Guests |-> NoTask]
    /\ spawnRet = {}
    /\ guestRet = {}
    /\ seenTerminal = EmptyMap
    /\ writes = [i \in TaskIds |-> 0]

BridgeIdle ==
    /\ mutex = Unlocked
    /\ cpc = [c \in Callers |-> "idle"]
    /\ cop = [c \in Callers |-> "run"]
    /\ cctx = [c \in Callers |-> "blocking"]
    /\ cres = [c \in Callers |-> "none"]
    /\ chan = <<>>
    /\ hopen = TRUE
    /\ hchan = {}
    /\ consumer = 0
    /\ reqs = <<>>
    /\ cur = [c \in Callers |-> 0]
    /\ entered = <<>>

\* discovery at rest
DiscIdle ==
    /\ search_paths = <<"missing">>
    /\ dirIdx = 1
    /\ scanning = FALSE
    /\ scanned = 0
    /\ plugins = EmptyMap
    /\ native_libs = <<>>
    /\ loads = 0
    /\ firstLoaded = EmptyMap
    /\ dropped = {}
    /\ lastFailed = FALSE
    /\ discResult = "running"
    /\ surface = <<>>
    /\ pmDrops = 0
    /\ unloaded = {}

Init == DiscInit /\ DispIdle /\ TaskIdle /\ BridgeIdle /\ LibIdle

Next ==
    \/ SkipMissingDir
    \/ LoadProjectDir
    \/ OpenDirFails
    \/ OpenDir
    \/ ScanEntryError
    \/ ScanProject
    \/ ScanNative
    \/ ScanWasm
    \/ ScanOther
    \/ EndScan
    \/ FinishDiscovery
    \/ DropField

Spec == Init /\ [][Next]_vars

\* main between discovery and the end of the process: the registry is what
\* loading the files of one scanned directory, in order, has left
LoadableFiles ==
    {f \in NativeFiles : f.open = "ok" /\ f.symbol = "ok"}
    \cup {f \in WasmFiles : f.build = "ok"}

RECURSIVE LoadAll(_)
LoadAll(files) ==
    IF files = <<>> THEN RegEmpty
    ELSE LET n == Len(files)
             r == LoadAll(SubSeq(files, 1, n - 1))
         IN IF "open" \in DOMAIN files[n]
            THEN load_native(r, files[n]).reg
            ELSE load_wasm(r, files[n]).reg

ComposeInit ==
    /\ \E files \in UNION {[1..n -> LoadableFiles] : n \in 0..MaxEntries} :
         /\ scanned = Len(files)
         /\ plugins = LoadAll(files).plugins
         /\ native_libs = LoadAll(files).native_libs
         /\ loads = LoadAll(files).loads
         /\ firstLoaded = LoadAll(files).firstLoaded
         /\ dropped = LoadAll(files).dropped
    /\ search_paths = <<"scan">>
    /\ dirIdx = 2
    /\ scanning = FALSE
    /\ lastFailed = FALSE
    /\ discResult = "Ok"
    /\ surface = <<>>
    /\ pmDrops = 0
    /\ unloaded = {}
    /\ DispIdle
    /\ TaskIdle
    /\ BridgeIdle
    /\ LibIdle

ComposeNext ==
    \/ ComposeStep
    \/ DropField

SpecCompose == ComposeInit /\ [][ComposeNext]_vars

\* main after a successful discovery
DispInit ==
    /\ search_paths = <<"scan">>
    /\ dirIdx = 2
    /\ scanning = FALSE
    /\ scanned = 0
    /\ plugins \in Registries
    /\ native_libs = <<>>
    /\ loads = 1
    /\ firstLoaded = [n \in DOMAIN plugins |-> 1]
    /\ dropped = {}
    /\ lastFailed = FALSE
    /\ discResult = "Ok"
    /\ surface = <<>>
    /\ pmDrops = 0
    /\ unloaded = {}
    /\ DispIdle
    /\ TaskIdle
    /\ BridgeIdle
    /\ LibIdle

DispNext ==
    \/ ParseArgs
    \/ Dispatch
    \/ ExitProcess

SpecDispatch == DispInit /\ [][DispNext]_vars

--------------------------------------------------------------------------
TaskInit == DiscIdle /\ DispIdle /\ TaskIdle /\ BridgeIdle /\ LibIdle

TaskNext ==
    \/ \E g \in Guests : HostSpawnCall(g)
    \/ \E g \in Guests : AdmitAlloc(g)
    \/ \E g \in Guests : AdmitStore(g)
    \/ \E g \in Guests : HostSpawnReturn(g)
    \/ \E id \in TaskIds : TaskRunOk(id)
    \/ \E id \in TaskIds : TaskRunErr(id)
    \/ \E id \in TaskIds : PollTask(id)

SpecTasks == TaskInit /\ [][TaskNext]_vars

\* fair scheduling: the tokio runtime eventually runs every spawned task to
\* the end of its closure (run returns, the result is stored), and a guest
\* that polls an id in a loop eventually polls it again
TaskFairness ==
    \A id \in TaskIds :
      /\ WF_vars(TaskRunOk(id) \/ TaskRunErr(id))
      /\ WF_vars(PollTask(id))

\* the steps of one guest and of the tasks it spawned: whether a task leaves
\* Running depends on the task's own closure, not on how many guests spawn
FirstGuest == CHOOSE g \in Guests : \A h \in Guests : g <= h

TaskFairNext ==
    \/ HostSpawnCall(FirstGuest)
    \/ AdmitAlloc(FirstGuest)
    \/ AdmitStore(FirstGuest)
    \/ HostSpawnReturn(FirstGuest)
    \/ \E id \in TaskIds : TaskRunOk(id)
    \/ \E id \in TaskIds : TaskRunErr(id)
    \/ \E id \in TaskIds : PollTask(id)

SpecTasksFair == TaskInit /\ [][TaskFairNext]_vars /\ TaskFairness

--------------------------------------------------------------------------
BridgeInit == DiscIdle /\ DispIdle /\ TaskIdle /\ BridgeIdle /\ LibIdle

BridgeNext ==
    \/ \E c \in Callers : Invoke(c)
    \/ \E c \in Callers : Lock(c)
    \/ \E c \in Callers : GuestCallLive(c)
    \/ \E c \in Callers : GuestCallHost(c)
    \/ ConsumerRecv
    \/ ConsumerReadDone
    \/ CloseHostChannel
    \/ \E c \in Callers : HostFnReturn(c)
    \/ \E c \in Callers : GuestFinish(c)

SpecBridge == BridgeInit /\ [][BridgeNext]_vars

\* the bridge when the sender handed to the host functions is shared with
\* other senders, which can fill the channel
SharedBridgeNext ==
    \/ \E c \in Callers : Invoke(c)
    \/ \E c \in Callers : Lock(c)
    \/ \E c \in Callers : GuestCallLive(c)
    \/ \E c \in Callers : GuestCallHost(c)
    \/ \E c \in Callers : GuestCallHostFull(c)
    \/ ConsumerRecv
    \/ ConsumerReadDone
    \/ CloseHostChannel
    \/ \E c \in Callers : HostFnReturn(c)
    \/ \E c \in Callers : GuestFinish(c)

SpecSharedBridge == BridgeInit /\ [][SharedBridgeNext]_vars

--------------------------------------------------------------------------
\* PackageSpec::parse applied to every string of the bounded alphabet
ParseInit ==
    /\ DiscIdle /\ DispIdle /\ TaskIdle /\ BridgeIdle
    /\ BkIdle /\ SymIdle
    /\ pkgIn \in Strings
    /\ pkgOut = NotParsed
    /\ ProjIdle /\ FsIdle /\ EnvIdle /\ PollIdle

ParseNext ==
    \/ ParsePackageSpec

SpecParse == ParseInit /\ [][ParseNext]_vars

\* build_and_load_rust_project applied to every project directory
ProjectInit ==
    /\ DiscIdle /\ DispIdle /\ TaskIdle /\ BridgeIdle
    /\ BkIdle /\ SymIdle
    /\ PkgIdle /\ FsIdle /\ EnvIdle /\ PollIdle
    /\ proj \in Projects
    /\ newestSource \in Times
    /\ projOut = NotBuilt

ProjectNext ==
    \/ BuildAndLoad

SpecProject == ProjectInit /\ [][ProjectNext]_vars

\* the classification applied to every path and host
ClassifyInit ==
    /\ DiscIdle /\ DispIdle /\ TaskIdle /\ BridgeIdle
    /\ BkIdle /\ SymIdle
    /\ PkgIdle /\ ProjIdle /\ EnvIdle /\ PollIdle
    /\ fsEntry \in FsEntries
    /\ host \in Hosts
    /\ fsOut = "unseen"

ClassifyNext ==
    \/ Classify

SpecClassify == ClassifyInit /\ [][ClassifyNext]_vars

\* PluginManager::new in every environment
EnvInit ==
    /\ DiscIdle /\ DispIdle /\ TaskIdle /\ BridgeIdle
    /\ BkIdle /\ SymIdle
    /\ PkgIdle /\ ProjIdle /\ FsIdle /\ PollIdle
    /\ envIn \in Envs
    /\ pathOut = <<>>

EnvNext ==
    \/ NewManager

SpecEnv == EnvInit /\ [][EnvNext]_vars

\* poll_kargo_task for every reply
PollFnInit ==
    /\ DiscIdle /\ DispIdle /\ TaskIdle /\ BridgeIdle
    /\ BkIdle /\ SymIdle
    /\ PkgIdle /\ ProjIdle /\ FsIdle /\ EnvIdle
    /\ pollIn \in PollInputs
    /\ pollOut = NotPolled

PollFnNext ==
    \/ PollKargoTask

SpecPollFn == PollFnInit /\ [][PollFnNext]_vars

\* backup_file, modifications and rollback over every initial file content
BackupInit ==
    /\ DiscIdle /\ DispIdle /\ TaskIdle /\ BridgeIdle
    /\ PkgIdle /\ ProjIdle /\ FsIdle /\ EnvIdle /\ PollIdle /\ SymIdle
    /\ bkFiles \in [BkPaths -> Contents]
    /\ changes = <<>>
    /\ bkOrig = EmptyMap
    /\ bkPhase = "backup"
    /\ bkRes = "none"

BackupNext ==
    \/ \E path \in BkPaths \cup {DotDot} : BackupFile(path)
    \/ \E path \in BkPaths : \E content \in Contents : ModifyFile(path, content)
    \/ Rollback

SpecBackup == BackupInit /\ [][BackupNext]_vars

\* the constructor lookup for every plugin library
SymInit ==
    /\ DiscIdle /\ DispIdle /\ TaskIdle /\ BridgeIdle
    /\ PkgIdle /\ ProjIdle /\ FsIdle /\ EnvIdle /\ PollIdle /\ BkIdle
    /\ libIn \in PluginLibs
    /\ ctorOut = "none"

SymNext ==
    \/ ResolveCtor

SpecSym == SymInit /\ [][SymNext]_vars


--------------------------------------------------------------------------
\* C1: when two loaded candidates advertise the same command name, the
\* registry holds under that name the object that was loaded first; a later
\* load never replaces it.
C1_FirstLoadedWins ==
    \A n \in DOMAIN plugins : plugins[n].id = firstLoaded[n]

\* C2: a failing candidate never aborts discovery: discover_and_load_plugins
\* never returns an error.
C2_DiscoveryNeverAborts == discResult # "Err"

\* C8 (as stated): one dispatch does exactly one of: run exactly one
\* extension, spawn the wrapped tool, or fail with a parse error.
C8_ExactlyOneRoute ==
    dpc = "exited" =>
        \/ Len(runLog) = 1 /\ Len(spawnLog) = 0
        \/ Len(runLog) = 0 /\ Len(spawnLog) = 1
        \/ matches.kind = "exit" /\ Len(runLog) = 0 /\ Len(spawnLog) = 0

\* C8 (amended): one dispatch does at most one of: run one extension, spawn
\* the wrapped tool; never both, never two runs, and neither after a parse
\* error. (It may fail having done neither.)
C8_AtMostOneRoute ==
    /\ Len(runLog) + Len(spawnLog) <= 1
    /\ matches.kind = "exit" => Len(runLog) = 0 /\ Len(spawnLog) = 0
    /\ \A i \in 1..Len(runLog) : runLog[i].name \in DOMAIN plugins

\* C8 witness: a dispatch that ran one extension and spawned nothing
C8_Witness ==
    /\ dpc = "exited"
    /\ Len(runLog) = 1
    /\ Len(spawnLog) = 0
    /\ Len(argv) > 1

\* C9: when a registered extension advertises `cargo`, an argv whose
\* subcommand is `cargo` is routed to that extension's run and the wrapped
\* tool is not spawned.
C9_ExtensionShadowsCargo ==
    (/\ dpc \in {"dispatched", "exited"}
     /\ "cargo" \in DOMAIN plugins
     /\ matches.kind = "matches"
     /\ matches.sub = "cargo")
    => /\ Len(spawnLog) = 0
       /\ dispResult = "Ok" => Len(runLog) = 1 /\ runLog[1].name = "cargo"

\* C10: exit code 0 when dispatch succeeds, 1 on a host failure (a failed
\* extension run included), and the wrapped tool's own code c when the
\* passthrough tool exits with c # 0.
C10_ExitCodes ==
    (dpc = "exited" /\ matches.kind = "matches") =>
        /\ dispResult = "Ok" => exitCode = 0
        /\ (Len(runLog) = 1 /\ runLog[1].result = "Err") => exitCode = 1
        /\ (Len(spawnLog) = 1 /\ spawnLog[1].code # 0) => exitCode = spawnLog[1].code


\* C5: once a poll of a task's id has returned a terminal response, every
\* later poll of that id returns the same response with the same payload
\* (never TaskPending); the table entry is stored once as Running and changes
\* at most once, to a terminal state.
C5_TerminalIsStable ==
    /\ \A id \in DOMAIN seenTerminal : poll_task(tasks, id) = seenTerminal[id]
    /\ \A id \in DOMAIN tasks :
         /\ writes[id] <= 2
         /\ writes[id] = 2 => tasks[id].st # "Running"
         /\ writes[id] = 1 => tasks[id].st = "Running"

\* C5 witness: polls have seen a completed and a failed task
C5_Witness ==
    /\ \E id \in DOMAIN seenTerminal : seenTerminal[id].tag = "Data"
    /\ \E id \in DOMAIN seenTerminal : seenTerminal[id].tag = "Error"

\* the step in which guest g's spawn_task call returns Ok(id)
SpawnTaskReturns(g) == gpc[g] = "admitting" /\ gpc'[g] = "admitted"

\* the step in which guest g's spawn_kargo_task call returns its id
SpawnKargoTaskReturns(g) == gpc[g] = "admitted" /\ gpc'[g] = "idle"

\* C6 (as stated): every successful spawn returns an id that no spawn has
\* returned before and that is greater than every id a spawn returned before
\* it; for TaskManager::spawn_task and for spawn_kargo_task.
C6_ReturnOrderIncreasing ==
    [][\A g \in Guests :
         /\ SpawnTaskReturns(g) =>
               /\ gtask[g].id \notin spawnRet
               /\ gtask[g].id > MaxOf(spawnRet)
         /\ SpawnKargoTaskReturns(g) =>
               /\ greq[g].task_id \notin guestRet
               /\ greq[g].task_id > MaxOf(guestRet)]_vars

\* C6 (amended): every successful spawn returns an id that no spawn has
\* returned before and that is greater than every id returned by a spawn
\* that had returned before this one was called (floor); for
\* TaskManager::spawn_task and for spawn_kargo_task.
C6_IdsIncreaseAndUnique ==
    [][\A g \in Guests :
         /\ SpawnTaskReturns(g) =>
               /\ gtask[g].id \notin spawnRet
               /\ gtask[g].id > gtask[g].floor
         /\ SpawnKargoTaskReturns(g) =>
               /\ greq[g].task_id \notin guestRet
               /\ greq[g].task_id > greq[g].floor]_vars

\* C6 witness: spawn_task has returned for a spawn_kargo_task call that was
\* made after another one had returned its id, and a spawn has failed (its
\* id was drawn and is neither returned nor held by a call in flight)
C6_Witness ==
    /\ \E g \in Guests : gpc[g] = "admitted" /\ greq[g].floor > 0
    /\ Cardinality(spawnRet) >= 2
    /\ Cardinality(guestRet) >= 1
    /\ \E i \in 1..MaxCalls :
         /\ i < fnCounter
         /\ i \notin guestRet
         /\ \A g \in Guests : greq[g].task_id # i

\* C3: every host-function call a guest makes during run receives its reply
\* and run completes: no run ends in a panic of the host function it called.
C3_RunHostCallsComplete ==
    \A c \in Callers : cop[c] = "run" => cpc[c] # "panicked"

C7_GuestCallsSerialized ==
    /\ Cardinality(InGuest) <= 1
    /\ \A c \in InGuest : mutex.holder = c
    /\ \A i \in 1..(Len(entered) - 1) : entered[i] \notin InGuest

\* C7 witness: a run is inside the guest, waiting for a reply, while another
\* run waits for the mutex
C7_Witness ==
    \E c, d \in Callers :
        /\ cpc[c] = "waitReply" /\ cop[c] = "run"
        /\ cpc[d] = "locking" /\ cop[d] = "run"

\* C11: when the resolved subcommand is a registered extension, its run is
\* invoked once with argv = [name] followed by exactly the tokens that follow
\* the subcommand name in the user's argv (also after --alias).
C11_RunArgvIsRawTail ==
    (/\ dpc \in {"dispatched", "exited"}
     /\ matches.kind = "matches"
     /\ matches.sub # "cargo"
     /\ matches.sub \in DOMAIN plugins)
    => /\ Len(spawnLog) = 0
       /\ Len(runLog) <= 1
       /\ dispResult = "Ok" => Len(runLog) = 1
       /\ \A i \in 1..Len(runLog) :
            /\ runLog[i].name = matches.sub
            /\ runLog[i].args = <<matches.sub>> \o matches.rest

\* C12: when the subcommand is neither `cargo` nor a registered extension,
\* the wrapped tool is spawned once with [name] followed by the residual
\* tokens in order, each once, and no extension is run.
C12_PassthroughArgs ==
    (/\ dpc \in {"dispatched", "exited"}
     /\ matches.kind = "matches"
     /\ matches.ext)
    => /\ Len(runLog) = 0
       /\ Len(spawnLog) <= 1
       /\ dispResult = "Ok" => Len(spawnLog) = 1
       /\ \A i \in 1..Len(spawnLog) :
            spawnLog[i].args = <<matches.sub>> \o matches.rest

\* C13: when the argv holds no subcommand (nothing, or only --alias) the
\* process ends in the parser, with help and a nonzero status, and dispatch
\* never reaches its unreachable!() branch.
C13_NoSubcommandPrintsHelp ==
    /\ dispResult # "panic"
    /\ (dpc = "exited" /\ \A i \in 1..Len(argv) : argv[i] = "--alias")
         => matches.kind = "exit" /\ exitCode # 0

\* C14: for every id and every table state, poll returns TaskPending for a
\* Running entry, Data with the stored bytes for Completed, Error with the
\* stored message for Failed, and Error naming the id when there is no entry.
C14_PollMatchesTable ==
    /\ \A id \in 1..MaxCalls :
         LET r == poll_task(tasks, id)
         IN IF id \notin DOMAIN tasks
            THEN r.tag = "Error" /\ r.v = <<"Task not found", id>>
            ELSE /\ tasks[id].st = "Running" => r.tag = "TaskPending"
                 /\ tasks[id].st = "Completed" => r.tag = "Data" /\ r.v = tasks[id].v
                 /\ tasks[id].st = "Failed" => r.tag = "Error" /\ r.v = tasks[id].v
    /\ \A id \in DOMAIN seenTerminal :
         /\ id \in DOMAIN tasks
         /\ seenTerminal[id].tag = "Data" => tasks[id].st = "Completed"
         /\ seenTerminal[id].tag = "Error" => tasks[id].st = "Failed"
         /\ seenTerminal[id].v = tasks[id].v

\* C14 witness: a poll has returned the bytes of a completed task while
\* another entry is Running, another Failed or absent
C14_Witness ==
    /\ \E id \in DOMAIN seenTerminal : seenTerminal[id].tag = "Data"
    /\ \E id \in DOMAIN tasks : tasks[id].st = "Running"
    /\ \E id \in 1..MaxCalls : id \notin DOMAIN tasks

\* C15: a spawn that fails because the name has no factory (or the factory
\* fails) adds no table entry, schedules nothing and allocates no id, so the
\* id its caller drew is not used up; a spawn that succeeds returns an id
\* the table contains when it returns.
C15_FailedSpawnAllocatesNothing ==
    [][\A g \in Guests :
         /\ (gpc[g] = "sent" /\ gpc'[g] = "idle") =>
               /\ tasks' = tasks
               /\ jobs' = jobs
               /\ taskCounter' = taskCounter
               /\ fnCounter' <= greq[g].task_id
         /\ SpawnTaskReturns(g) => gtask[g].id \in DOMAIN tasks'
         /\ SpawnKargoTaskReturns(g) => greq[g].task_id \in DOMAIN tasks']_vars

\* C17: build_root_cli visits the registry in insertion order: a key that
\* was first inserted earlier is composed earlier, so the order of the
\* subcommands is the same in every run.
C17_SurfaceInInsertionOrder ==
    \A i, j \in 1..Len(surface) :
      i < j => firstLoaded[surface[i].key] < firstLoaded[surface[j].key]

\* C18: for every (key, extension) of the registry, the name of the command
\* the extension contributes at composition equals the key it was
\* registered under, sandboxed extensions included.
C18_ComposedNameIsKey ==
    \A i \in 1..Len(surface) : surface[i].name = surface[i].key

\* C19: every live native plugin object has its library handle loaded: at
\* load, after an object of the same name was displaced, and while the
\* manager is torn down a library is unloaded only after its object is gone.
C19_LiveNativeHasLibrary ==
    /\ \A n \in DOMAIN plugins :
         plugins[n].kind = "native" =>
           /\ \E i \in 1..Len(native_libs) : native_libs[i] = plugins[n].id
           /\ plugins[n].id \notin unloaded
    /\ unloaded \subseteq dropped

\* C19 witness: the manager is being dropped while a native object that
\* displaced an earlier native object of the same name is still live
C19_Witness ==
    /\ pmDrops = 1
    /\ \E n \in DOMAIN plugins :
         /\ plugins[n].kind = "native"
         /\ firstLoaded[n] < plugins[n].id
         /\ \E i \in 1..Len(native_libs) : native_libs[i] = firstLoaded[n]

\* C20: a sandboxed extension whose describe export fails, is not valid
\* JSON or has no name is left out: the registry has no entry under a
\* placeholder name and no placeholder subcommand is composed.
C20_NoPlaceholderEntry ==
    /\ DOMAIN plugins \cap PlaceholderNames = {}
    /\ \A i \in 1..Len(surface) : surface[i].name \notin PlaceholderNames

\* C16: when the bridge channel is at capacity a host call does not block
\* on the send: the request is not queued, the host function does not end
\* in a panic, and when it returns it hands the guest the error status 1.
C16_FullChannelFailsFast ==
    /\ \A c \in Callers :
         (cur[c] # 0 /\ reqs[cur[c]].full) =>
           /\ ~reqs[cur[c]].accepted
           /\ cur[c] \notin hchan
           /\ cpc[c] # "panicked"
    /\ \A i \in DOMAIN reqs :
         (reqs[i].full /\ reqs[i].returned) => reqs[i].status = 1

\* C21: the run of a sandboxed extension fails whenever the result the guest
\* returned reports failure, and succeeds only when it reports success: a
\* guest-reported failure never ends as a successful dispatch.
C21_GuestFailureIsFailure ==
    \A i \in 1..Len(runLog) :
      /\ runLog[i].guest = "failure" =>
           runLog[i].result = "Err" /\ dispResult # "Ok"
      /\ (runLog[i].guest # "none" /\ runLog[i].result = "Ok") =>
           runLog[i].guest = "success"

\* C22: PackageSpec::parse accepts exactly the strings with at most one '@'
\* whose trimmed part before the '@' starts with an ASCII letter and holds
\* only letters, digits, '-' and '_' after it; the version is None without
\* an '@' and Some(the trimmed rest) with one; everything else is an error.
C22_ParseAcceptsExactlyValidSpecs ==
    pkgOut # NotParsed =>
      LET ats == {i \in 1..Len(pkgIn) : pkgIn[i] = "@"}
          nameEnd == IF ats = {} THEN Len(pkgIn)
                     ELSE (CHOOSE i \in ats : \A j \in ats : i <= j) - 1
          inName == {i \in 1..nameEnd : pkgIn[i] # " "}
          first == CHOOSE i \in inName : \A j \in inName : i <= j
          last == CHOOSE i \in inName : \A j \in inName : j <= i
          inVer == {i \in (nameEnd + 2)..Len(pkgIn) : pkgIn[i] # " "}
          valid == /\ Cardinality(ats) <= 1
                   /\ inName # {}
                   /\ pkgIn[first] = "a"
                   /\ \A i \in first..last : pkgIn[i] \in {"a", "1", "-", "_"}
      IN /\ pkgOut.kind = "Ok" <=> valid
         /\ pkgOut.kind = "Ok" =>
              /\ pkgOut.name = SubSeq(pkgIn, first, last)
              /\ pkgOut.version.some <=> ats # {}
              /\ pkgOut.version.v =
                   IF inVer = {} THEN <<>>
                   ELSE SubSeq(pkgIn,
                               CHOOSE i \in inVer : \A j \in inVer : i <= j,
                               CHOOSE i \in inVer : \A j \in inVer : j <= i)
         /\ Cardinality(ats) > 1 => pkgOut.kind = "PackageSpecParse"
         /\ (Cardinality(ats) <= 1 /\ ~valid) => pkgOut.kind = "InvalidPackageName"

\* C22 witness: a `name@version` string with surrounding blanks was parsed
\* into a name and Some(version)
C22_Witness ==
    /\ pkgOut.kind = "Ok"
    /\ pkgOut.version.some
    /\ pkgOut.version.v # <<>>
    /\ Len(pkgOut.name) + Len(pkgOut.version.v) + 1 < Len(pkgIn)

\* C23: for a source project that passes verification and whose times can
\* be read, the build tool is invoked if and only if there is no artifact
\* or the newest source modification time is later than the artifact's;
\* after a failed build nothing is loaded from the project.
C23_BuildIffSourceNewer ==
    (projOut.called /\ proj.src /\ proj.meta) =>
      /\ projOut.built <=> (~proj.art \/ newestSource > proj.artMod)
      /\ (projOut.built /\ proj.build # "ok") => projOut.loaded = {}

\* C24: a search path entry that is not an existing directory gives no
\* candidate, a directory with a manifest gives one source project and is
\* not enumerated, any other directory is enumerated; of its children a
\* subdirectory with a manifest is a source project, a file with the host's
\* shared-library suffix a shared object, a `.wasm` file a WASM module and
\* anything else nothing.
C24_CandidateClassification ==
    fsOut # "unseen" =>
      LET suffix == CASE host = "linux" -> "so"
                      [] host = "macos" -> "dylib"
                      [] host = "windows" -> "dll"
          e == fsEntry
      IN IF e.top
         THEN /\ ~(e.exists /\ e.dir) => fsOut = "none"
              /\ (e.dir /\ e.manifest) => fsOut = "project"
              /\ (e.dir /\ ~e.manifest) => fsOut = "scan"
         ELSE /\ fsOut = "project" <=> (e.dir /\ e.manifest)
              /\ fsOut = "native" <=> (~e.dir /\ e.ext = suffix)
              /\ fsOut = "wasm" <=> (~e.dir /\ e.ext = "wasm")

\* C25: the search path is the KARGO_PLUGIN_PATH entries in their listed
\* order, then the workspace directories (only with the development marker),
\* then the user-config default, then the project-local default; with
\* neither override nor marker it is exactly the defaults in that order.
C25_SearchPathOrder ==
    pathOut # <<>> =>
      LET n == Len(pathOut)
          o == Len(envIn.override.v)
          d == IF envIn.cfg THEN 2 ELSE 1
          wsDirs == {10 + i : i \in {j \in 1..Len(envIn.native) :
                                        envIn.native[j] = "project"}}
                    \cup {20 + i : i \in {j \in 1..Len(envIn.wasm) :
                                           envIn.wasm[j] = "project"}}
                    \cup {20 : i \in {j \in 1..Len(envIn.wasm) :
                                       envIn.wasm[j] = "wasm"}}
          ws == {pathOut[i].id : i \in (o + 1)..(n - d)}
      IN /\ n >= o + d
         /\ \A i \in 1..o : pathOut[i] = Entry("env", envIn.override.v[i])
         /\ \A i \in (o + 1)..(n - d) : pathOut[i].part = "ws"
         /\ ws = IF envIn.marker THEN wsDirs ELSE {}
         /\ envIn.cfg => pathOut[n - 1] = Entry("user", 0)
         /\ pathOut[n] = Entry("local", 0)
         /\ (~envIn.override.set /\ ~envIn.marker) => n = d

\* C25 witness: an override, a workspace directory and both defaults are in
\* the computed path
C25_Witness ==
    /\ Len(pathOut) >= 4
    /\ envIn.override.v # <<>>
    /\ \E i \in 1..Len(pathOut) : pathOut[i].part = "ws"
    /\ envIn.cfg

\* C26: poll_kargo_task returns ready = 0 exactly for a TaskPending reply;
\* otherwise ready = 1 with status 0 for Data and Text and status 1 for
\* Error, an unexpected variant and a dropped reply channel; and each of the
\* four outputs is written on every path.
C26_PollOutputs ==
    (pollOut.called /\ pollOut.ok) =>
      /\ pollOut.out[1] = 0 <=> pollIn.reply = "TaskPending"
      /\ pollIn.reply # "TaskPending" => pollOut.out[1] = 1
      /\ pollIn.reply \in {"Data", "Text"} => pollOut.out[2] = 0
      /\ pollIn.reply \in {"Error", "Success", "Dropped"} => pollOut.out[2] = 1
      /\ \A k \in 1..4 : pollOut.out[k] # Unwritten

\* C27: the id a successful spawn_kargo_task handed to the guest is the id
\* under which the task registry stored the task: a poll with a returned id
\* never answers "Task not found".
C27_ReturnedIdIsStoredId ==
    \A id \in guestRet :
      /\ id \in DOMAIN tasks
      /\ poll_task(tasks, id) # Error(<<"Task not found", id>>)

\* C28: under fair scheduling no admitted task stays Running forever: every
\* task in the table reaches Completed or Failed, and a guest polling its id
\* eventually sees a response that is not TaskPending.
C28_AdmittedTaskTerminates ==
    \A id \in TaskIds :
      /\ (id \in DOMAIN tasks) ~> (id \in DOMAIN tasks /\ tasks[id].st \in {"Completed", "Failed"})
      /\ (id \in DOMAIN tasks) ~> (id \in DOMAIN seenTerminal)

\* a task was admitted, ran to a failure, and a poll saw the failure
C28_Witness ==
    \E id \in DOMAIN seenTerminal :
      /\ id \in spawnRet
      /\ id \notin jobs
      /\ tasks[id].st = "Failed"
      /\ seenTerminal[id] = Error(tasks[id].v)

\* C29: after backup_file on distinct paths (same file name in different
\* directories included) and arbitrary modifications, rollback restores every
\* backed-up path to the content it had when it was backed up.
C29_RollbackRestoresEveryPath ==
    (bkPhase = "rolled" /\ changes # <<>>) =>
      \A path \in DOMAIN bkOrig : bkFiles[path] = bkOrig[path]

\* C30: a plugin library written with the #[plugin] macro exports its
\* constructor under the name load_native resolves, so the lookup succeeds.
C30_MacroExportResolves ==
    (ctorOut # "none" /\ libIn.how = "macro") => ctorOut = "Ok"

=============================================================================
